---------------------------- MODULE Spec2Model ----------------------------
(***************************************************************************)
(* A model of the DBML parse-tree reducer (src/src/parser/mod.rs) and of    *)
(* the transpiler's Config (src/src/transpiler/mod.rs).                    *)
(*                                                                         *)
(* A parse-tree node (pest's Pair<Rule>) is a record                       *)
(*     [rule |-> its Rule, str |-> its matched text, kids |-> children]    *)
(* Every reduction function of the parser is an operator of the same name, *)
(* translated statement by statement.  A Rust Result is a record tagged    *)
(* "Ok" or "Err"; a panic (unwrap on an Err, unreachable!) is a third      *)
(* outcome tagged "Panic" that unwinds through every caller.               *)
(***************************************************************************)
EXTENDS Integers, Sequences, FiniteSets, TLC

VARIABLES pair, called, result, config, env, files

vars == <<pair, called, result, config, env, files>>

-----------------------------------------------------------------------------
(* Bounds of the model *)

\* longest list of declarations under a schema node
MaxDecls == 3
\* longest list of col_attribute children under a col_settings node
MaxAttrs == 3
\* longest list of children under a ref_stmt / ref_inline node
MaxRefKids == 3
\* longest list of project_stmt children in a project_block
MaxStmts == 3
\* longest list of identifier tokens in a qualified name
MaxTokens == 3
\* longest list of children under a table_col or a col_type node
MaxColKids == 3

-----------------------------------------------------------------------------
(* Rust values *)

Ok(v) == [tag |-> "Ok", val |-> v]
Err(e) == [tag |-> "Err", err |-> e]
Panic(m) == [tag |-> "Panic", msg |-> m]
\* leaves the enclosing function from inside a loop with result r
Return(r) == [tag |-> "Return", ret |-> r]

None == [some |-> FALSE]
Some(v) == [some |-> TRUE, val |-> v]

Node(rule, str, kids) == [rule |-> rule, str |-> str, kids |-> kids]

\* Iterator::try_fold and the `for` loops: the children are visited left to
\* right, Step gives the next accumulator (Ok) or ends the loop (anything else)
\* the `?` operator: the value of an Ok goes on to K, anything else leaves
Try(r, K(_)) == IF r.tag = "Ok" THEN K(r.val) ELSE r

RECURSIVE Loop(_, _, _, _)
Loop(Step(_, _), acc, kids, i) ==
  IF i > Len(kids) THEN Ok(acc)
  ELSE Try(Step(acc, kids[i]), LAMBDA next : Loop(Step, next, kids, i + 1))

try_fold(kids, init, Step(_, _)) == Loop(Step, init, kids, 1)

\* the function's value when its loop ended with r: a `return` inside the loop
\* gives the returned value, otherwise After(acc) is what follows the loop
Finish(r, After(_)) ==
  CASE r.tag = "Return" -> r.ret
    [] r.tag = "Ok" -> After(r.val)
    [] OTHER -> r

-----------------------------------------------------------------------------
(* Errors (parser/err.rs) *)

throw_rules(expected, p) ==
  Err([kind |-> "UnexpectedRule", expected |-> expected, found |-> p.rule])

throw_msg(msg, p) ==
  Err([kind |-> "InvalidAttribute", message |-> msg, found |-> p.rule])

-----------------------------------------------------------------------------
(* str::parse::<i32> and str::parse::<f32> *)

I32_MAX == 2147483647

\* TLC's strings are atomic: the characters of each numeric text of the model
Chars ==
  [s \in {"0", "42", "2147483647", "2147483648", "99999999999", "-1",
          "-2147483648", "-2147483649", "12a", "3.14", "0.5", "1.", ""} |->
     CASE s = "0" -> <<"0">>
       [] s = "42" -> <<"4", "2">>
       [] s = "2147483647" -> <<"2", "1", "4", "7", "4", "8", "3", "6", "4", "7">>
       [] s = "2147483648" -> <<"2", "1", "4", "7", "4", "8", "3", "6", "4", "8">>
       [] s = "99999999999" -> <<"9", "9", "9", "9", "9", "9", "9", "9", "9", "9", "9">>
       [] s = "-1" -> <<"-", "1">>
       [] s = "-2147483648" -> <<"-", "2", "1", "4", "7", "4", "8", "3", "6", "4", "8">>
       [] s = "-2147483649" -> <<"-", "2", "1", "4", "7", "4", "8", "3", "6", "4", "9">>
       [] s = "12a" -> <<"1", "2", "a">>
       [] s = "3.14" -> <<"3", ".", "1", "4">>
       [] s = "0.5" -> <<"0", ".", "5">>
       [] s = "1." -> <<"1", ".">>
       [] s = "" -> <<>>]

DigitChars == {"0", "1", "2", "3", "4", "5", "6", "7", "8", "9"}

DigitVal(c) ==
  CASE c = "0" -> 0 [] c = "1" -> 1 [] c = "2" -> 2 [] c = "3" -> 3
    [] c = "4" -> 4 [] c = "5" -> 5 [] c = "6" -> 6 [] c = "7" -> 7
    [] c = "8" -> 8 [] c = "9" -> 9

\* i32::from_str: an optional sign, then one or more digits accumulated with
\* checked_mul / checked_add (checked_sub for a negative number); an empty
\* string, a non-digit or an overflow gives Err
RECURSIVE I32Digits(_, _, _, _)
I32Digits(cs, i, acc, neg) ==
  IF i > Len(cs) THEN Ok(acc)
  ELSE IF cs[i] \notin DigitChars THEN Err("InvalidDigit")
  ELSE LET d == DigitVal(cs[i])
       IN IF neg
          THEN IF acc < (-I32_MAX - 1) \div 10 + (IF (-I32_MAX - 1) % 10 = 0 THEN 0 ELSE 1)
                  \/ acc * 10 < (-I32_MAX - 1) + d
               THEN Err("NegOverflow")
               ELSE I32Digits(cs, i + 1, acc * 10 - d, neg)
          ELSE IF acc > I32_MAX \div 10 \/ acc * 10 > I32_MAX - d
               THEN Err("PosOverflow")
               ELSE I32Digits(cs, i + 1, acc * 10 + d, neg)

parse_i32(s) ==
  LET cs == Chars[s]
  IN IF cs = <<>> THEN Err("Empty")
     ELSE IF cs[1] \in {"-", "+"}
          THEN IF Len(cs) = 1 THEN Err("InvalidDigit")
               ELSE I32Digits(cs, 2, 0, cs[1] = "-")
          ELSE I32Digits(cs, 1, 0, FALSE)

\* f32::from_str on the decimal texts of the model: an optional sign, digits
\* with at most one point and at least one digit; a value too large for f32 is
\* infinity, not an error.  The f32 is kept as its text (rounding not modelled).
parse_f32(s) ==
  LET cs == Chars[s]
      body == IF cs # <<>> /\ cs[1] \in {"-", "+"} THEN Tail(cs) ELSE cs
      points == {i \in 1..Len(body) : body[i] = "."}
      digits == {i \in 1..Len(body) : body[i] \in DigitChars}
  IN IF /\ Cardinality(points) <= 1
        /\ Cardinality(digits) >= 1
        /\ Cardinality(points) + Cardinality(digits) = Len(body)
     THEN Ok([f32 |-> s])
     ELSE Err("Invalid")

\* Result::unwrap
unwrap(r) == IF r.tag = "Ok" THEN r ELSE Panic("called Result::unwrap() on an Err value")

-----------------------------------------------------------------------------
(* Leaves: identifiers, strings, values *)

parse_ident(p) ==
  IF Len(p.kids) = 0 THEN Panic("something went wrong at ident!")
  ELSE LET p1 == p.kids[1]
       IN CASE p1.rule = "var" -> Ok(p1.str)
            [] p1.rule = "double_quoted_string" ->
                 Ok(IF Len(p1.kids) = 0 THEN "" ELSE p1.kids[Len(p1.kids)].str)
            [] OTHER -> throw_rules(<<"var", "double_quoted_string">>, p1)

parse_string_value(p) ==
  try_fold(p.kids, "", LAMBDA out, p1 :
    CASE p1.rule = "triple_quoted_string" ->
           try_fold(p1.kids, out, LAMBDA o, p2 :
             IF p2.rule = "triple_quoted_value" THEN Ok(p2.str)
             ELSE throw_rules(<<"triple_quoted_value">>, p2))
      [] p1.rule = "single_quoted_string" ->
           try_fold(p1.kids, out, LAMBDA o, p2 :
             IF p2.rule = "single_quoted_value" THEN Ok(p2.str)
             ELSE throw_rules(<<"single_quoted_value">>, p2))
      [] OTHER -> throw_rules(<<"triple_quoted_string", "single_quoted_string">>, p1))

ValueString(s) == [kind |-> "String", v |-> s]
ValueInteger(n) == [kind |-> "Integer", v |-> n]
ValueDecimal(x) == [kind |-> "Decimal", v |-> x]
ValueBool(b) == [kind |-> "Bool", v |-> b]
ValueNull == [kind |-> "Null"]

parse_value(p) ==
  Finish(
    try_fold(p.kids, <<>>, LAMBDA u, p1 :
      CASE p1.rule = "string_value" ->
             Try(parse_string_value(p1), LAMBDA value : Return(Ok(ValueString(value))))
        [] p1.rule = "number_value" ->
             try_fold(p1.kids, u, LAMBDA u2, p2 :
               CASE p2.rule = "decimal" ->
                      Try(unwrap(parse_f32(p2.str)), LAMBDA value : Return(Ok(ValueDecimal(value))))
                 [] p2.rule = "integer" ->
                      Try(unwrap(parse_i32(p2.str)), LAMBDA value : Return(Ok(ValueInteger(value))))
                 [] OTHER -> throw_rules(<<"decimal", "integer">>, p2))
        [] p1.rule = "boolean_value" ->
             try_fold(p1.kids, u, LAMBDA u2, p2 :
               CASE p2.str = "true" -> Return(Ok(ValueBool(TRUE)))
                 [] p2.str = "false" -> Return(Ok(ValueBool(FALSE)))
                 [] p2.str = "null" -> Return(Ok(ValueNull))
                 [] OTHER -> throw_msg(<<p2.str, "is incompatible with boolean value">>, p2))
        [] OTHER -> throw_rules(<<"string_value", "number_value", "boolean_value">>, p1)),
    LAMBDA u : Panic("something went wrong at value!"))

-----------------------------------------------------------------------------
(* Qualified names *)

\* the two or one tokens of a qualified name, as both functions take them apart
\* with Vec::remove(0)
\* parse_decl_ident with the two tokens taken in the other order
parse_decl_ident_swapped(p) ==
  Finish(
    try_fold(p.kids, <<>>, LAMBDA tmp_tokens, p1 :
      IF p1.rule = "ident"
      THEN Try(parse_ident(p1), LAMBDA t : Ok(Append(tmp_tokens, t)))
      ELSE throw_rules(<<"ident">>, p1)),
    LAMBDA tmp_tokens :
      CASE Len(tmp_tokens) = 2 ->
             LET name == Head(tmp_tokens)
                 schema == Some(Head(Tail(tmp_tokens)))
             IN Ok(<<schema, name>>)
        [] Len(tmp_tokens) = 1 -> Ok(<<None, Head(tmp_tokens)>>)
        [] OTHER -> Panic("unwell formatted decl_ident!"))

parse_decl_ident(p) ==
  Finish(
    try_fold(p.kids, <<>>, LAMBDA tmp_tokens, p1 :
      IF p1.rule = "ident"
      THEN Try(parse_ident(p1), LAMBDA t : Ok(Append(tmp_tokens, t)))
      ELSE throw_rules(<<"ident">>, p1)),
    LAMBDA tmp_tokens :
      CASE Len(tmp_tokens) = 2 ->
             LET schema == Some(Head(tmp_tokens))
                 name == Head(Tail(tmp_tokens))
             IN Ok(<<schema, name>>)
        [] Len(tmp_tokens) = 1 -> Ok(<<None, Head(tmp_tokens)>>)
        [] OTHER -> Panic("unwell formatted decl_ident!"))

RefIdentDefault == [schema |-> None, table |-> "", compositions |-> <<>>]

parse_ref_ident(p) ==
  Finish(
    try_fold(p.kids, [out |-> RefIdentDefault, tmp_tokens |-> <<>>], LAMBDA acc, p1 :
      CASE p1.rule = "ident" ->
             Try(parse_ident(p1), LAMBDA t : Ok([acc EXCEPT !.tmp_tokens = Append(@, t)]))
        [] p1.rule = "ref_composition" ->
             try_fold(p1.kids, acc, LAMBDA a, p2 :
               IF p2.rule = "ident"
               THEN Try(parse_ident(p2), LAMBDA t : Ok([a EXCEPT !.out.compositions = Append(@, t)]))
               ELSE throw_rules(<<"ident">>, p2))
        [] OTHER -> throw_rules(<<"ident", "ref_composition">>, p1)),
    LAMBDA acc :
      CASE Len(acc.tmp_tokens) = 2 ->
             Ok([acc.out EXCEPT !.schema = Some(Head(acc.tmp_tokens)),
                                !.table = Head(Tail(acc.tmp_tokens))])
        [] Len(acc.tmp_tokens) = 1 ->
             Ok([acc.out EXCEPT !.table = Head(acc.tmp_tokens)])
        [] OTHER -> Panic("unwell formatted ident!"))

-----------------------------------------------------------------------------
(* Notes *)

parse_note_inline(p) ==
  try_fold(p.kids, "", LAMBDA u, p1 :
    IF p1.rule = "string_value" THEN parse_string_value(p1)
    ELSE throw_rules(<<"string_value">>, p1))

parse_note_decl(p) ==
  Finish(
    try_fold(p.kids, <<>>, LAMBDA u, p1 :
      IF p1.rule \in {"note_short", "note_block"}
      THEN try_fold(p1.kids, u, LAMBDA u2, p2 :
             IF p2.rule = "string_value" THEN Return(parse_string_value(p2))
             ELSE throw_rules(<<"string_value">>, p2))
      ELSE throw_rules(<<"note_short", "note_block">>, p1)),
    LAMBDA u : Panic("something went wrong parsing note_decl!"))

-----------------------------------------------------------------------------
(* Relationships *)

RelationOperators == {"<", ">", "-", "<>"}

\* Relation::match_type (ast/refs.rs): the relation kind of an operator
Relation_match_type(value) ==
  CASE value = "<" -> "One2Many"
    [] value = ">" -> "Many2One"
    [] value = "-" -> "One2One"
    [] value = "<>" -> "Many2Many"

RelationActions == {"no action", "cascade", "restrict", "set null", "set default"}

\* RelationAction::match_type (ast/refs.rs), on the action vocabulary
RelationAction_match_type(value) ==
  CASE value \in RelationActions -> value

RelationSettingsDefault == [on_update |-> None, on_delete |-> None]

parse_rel_settings(p) ==
  try_fold(p.kids, RelationSettingsDefault, LAMBDA acc, p1 :
    IF p1.rule = "rel_attribute"
    THEN try_fold(p1.kids, acc, LAMBDA a, p2 :
           CASE p2.rule = "rel_update" ->
                  try_fold(p2.kids, a, LAMBDA a3, p3 :
                    Ok([a3 EXCEPT !.on_update = Some(RelationAction_match_type(p3.str))]))
             [] p2.rule = "rel_delete" ->
                  try_fold(p2.kids, a, LAMBDA a3, p3 :
                    Ok([a3 EXCEPT !.on_delete = Some(RelationAction_match_type(p3.str))]))
             [] OTHER -> throw_rules(<<"rel_update", "rel_delete">>, p2))
    ELSE throw_rules(<<"rel_attribute">>, p1))

RefBlockDefault ==
  [rel |-> "Undef", lhs |-> None, rhs |-> RefIdentDefault, settings |-> None]

\* parse_ref_stmt_inline with the two sides of the pivot exchanged
parse_ref_stmt_inline_swapped(p) ==
  try_fold(p.kids, RefBlockDefault, LAMBDA acc, p1 :
    CASE p1.rule = "relation" ->
           Ok([acc EXCEPT !.rel = Relation_match_type(p1.str)])
      [] p1.rule = "ref_ident" ->
           Try(parse_ref_ident(p1), LAMBDA value :
             IF acc.rel # "Undef"
             THEN Ok([acc EXCEPT !.lhs = Some(value)])
             ELSE Ok([acc EXCEPT !.rhs = value]))
      [] p1.rule = "rel_settings" ->
           Try(parse_rel_settings(p1), LAMBDA value :
             Ok([acc EXCEPT !.settings = Some(value)]))
      [] OTHER -> throw_rules(<<"relation", "ref_ident", "rel_settings">>, p1))

\* parse_ref_stmt_inline keeping the first identifier group as lhs
parse_ref_stmt_inline_first_lhs(p) ==
  try_fold(p.kids, RefBlockDefault, LAMBDA acc, p1 :
    CASE p1.rule = "relation" ->
           Ok([acc EXCEPT !.rel = Relation_match_type(p1.str)])
      [] p1.rule = "ref_ident" ->
           Try(parse_ref_ident(p1), LAMBDA value :
             IF acc.rel = "Undef"
             THEN (IF acc.lhs.some THEN Ok(acc) ELSE Ok([acc EXCEPT !.lhs = Some(value)]))
             ELSE Ok([acc EXCEPT !.rhs = value]))
      [] p1.rule = "rel_settings" ->
           Try(parse_rel_settings(p1), LAMBDA value :
             Ok([acc EXCEPT !.settings = Some(value)]))
      [] OTHER -> throw_rules(<<"relation", "ref_ident", "rel_settings">>, p1))

parse_ref_stmt_inline(p) ==
  try_fold(p.kids, RefBlockDefault, LAMBDA acc, p1 :
    CASE p1.rule = "relation" ->
           Ok([acc EXCEPT !.rel = Relation_match_type(p1.str)])
      [] p1.rule = "ref_ident" ->
           Try(parse_ref_ident(p1), LAMBDA value :
             IF acc.rel = "Undef"
             THEN Ok([acc EXCEPT !.lhs = Some(value)])
             ELSE Ok([acc EXCEPT !.rhs = value]))
      [] p1.rule = "rel_settings" ->
           Try(parse_rel_settings(p1), LAMBDA value :
             Ok([acc EXCEPT !.settings = Some(value)]))
      [] OTHER -> throw_rules(<<"relation", "ref_ident", "rel_settings">>, p1))

parse_ref_decl(p) ==
  Finish(
    try_fold(p.kids, <<>>, LAMBDA u, p1 :
      IF p1.rule \in {"ref_block", "ref_short"}
      THEN try_fold(p1.kids, u, LAMBDA u2, p2 :
             IF p2.rule = "ref_stmt" THEN Return(parse_ref_stmt_inline(p2))
             ELSE throw_rules(<<"ref_stmt">>, p2))
      ELSE throw_rules(<<"ref_block", "ref_short">>, p1)),
    LAMBDA u : Panic("something went wrong parsing ref_decl!"))

-----------------------------------------------------------------------------
(* Columns *)

parse_col_type_arg(p) ==
  try_fold(p.kids, <<>>, LAMBDA acc, p1 :
    IF p1.rule = "value"
    THEN Try(parse_value(p1), LAMBDA v : Ok(Append(acc, v)))
    ELSE throw_rules(<<"value">>, p1))

ColumnTypeUndef == [kind |-> "Undef"]
ColumnTypeRaw(s) == [kind |-> "Raw", v |-> s]

\* the value is the tuple (col_type, col_args, is_array)
parse_col_type(p) ==
  Finish(
    try_fold(p.kids,
             [is_array |-> FALSE, col_args |-> <<>>, col_type |-> ColumnTypeUndef],
             LAMBDA acc, p1 :
      IF p1.rule \in {"col_type_single", "col_type_array"}
      THEN try_fold(p1.kids, [acc EXCEPT !.is_array = (p1.rule = "col_type_array")],
                    LAMBDA a, p2 :
             CASE p2.rule = "var" -> Ok([a EXCEPT !.col_type = ColumnTypeRaw(p2.str)])
               [] p2.rule = "col_type_arg" ->
                    Try(parse_col_type_arg(p2), LAMBDA v : Ok([a EXCEPT !.col_args = v]))
               [] OTHER -> throw_rules(<<"var", "col_type_arg">>, p2))
      ELSE throw_rules(<<"col_type_single">>, p1)),
    LAMBDA acc : Ok(<<acc.col_type, acc.col_args, acc.is_array>>))

ColumnSettingsDefault ==
  [is_pk |-> FALSE, is_unique |-> FALSE, is_nullable |-> FALSE,
   is_incremental |-> FALSE, is_array |-> FALSE,
   default |-> None, note |-> None, refs |-> <<>>]

\* parse_col_settings with a primary key made unique as well
parse_col_settings_pk_unique(p) ==
  try_fold(p.kids, ColumnSettingsDefault, LAMBDA acc, p1 :
    IF p1.rule = "col_attribute"
    THEN CASE p1.str = "unique" -> Ok([acc EXCEPT !.is_unique = TRUE])
           [] p1.str \in {"primary key", "pk"} ->
                Ok([acc EXCEPT !.is_pk = TRUE, !.is_unique = TRUE])
           [] p1.str = "null" -> Ok([acc EXCEPT !.is_nullable = TRUE])
           [] p1.str = "not null" -> Ok(acc)
           [] p1.str = "increment" -> Ok([acc EXCEPT !.is_incremental = TRUE])
           [] OTHER ->
                try_fold(p1.kids, acc, LAMBDA a, p2 :
                  CASE p2.rule = "col_default" ->
                         Try(parse_value(p2), LAMBDA v : Ok([a EXCEPT !.default = Some(v)]))
                    [] p2.rule = "note_inline" ->
                         Try(parse_note_inline(p2), LAMBDA v : Ok([a EXCEPT !.note = Some(v)]))
                    [] p2.rule = "ref_inline" ->
                         Try(parse_ref_stmt_inline(p2), LAMBDA v : Ok([a EXCEPT !.refs = Append(@, v)]))
                    [] OTHER ->
                         throw_msg(<<p2.str, "is not the valid attribute for col_attribute">>, p2))
    ELSE throw_rules(<<"col_attribute">>, p1))

parse_col_settings(p) ==
  try_fold(p.kids, ColumnSettingsDefault, LAMBDA acc, p1 :
    IF p1.rule = "col_attribute"
    THEN CASE p1.str = "unique" -> Ok([acc EXCEPT !.is_unique = TRUE])
           [] p1.str \in {"primary key", "pk"} -> Ok([acc EXCEPT !.is_pk = TRUE])
           [] p1.str = "null" -> Ok([acc EXCEPT !.is_nullable = TRUE])
           [] p1.str = "not null" -> Ok(acc)
           [] p1.str = "increment" -> Ok([acc EXCEPT !.is_incremental = TRUE])
           [] OTHER ->
                try_fold(p1.kids, acc, LAMBDA a, p2 :
                  CASE p2.rule = "col_default" ->
                         Try(parse_value(p2), LAMBDA v : Ok([a EXCEPT !.default = Some(v)]))
                    [] p2.rule = "note_inline" ->
                         Try(parse_note_inline(p2), LAMBDA v : Ok([a EXCEPT !.note = Some(v)]))
                    [] p2.rule = "ref_inline" ->
                         Try(parse_ref_stmt_inline(p2), LAMBDA v : Ok([a EXCEPT !.refs = Append(@, v)]))
                    [] OTHER ->
                         throw_msg(<<p2.str, "is not the valid attribute for col_attribute">>, p2))
    ELSE throw_rules(<<"col_attribute">>, p1))

TableFieldDefault ==
  [col_name |-> "", col_type |-> ColumnTypeUndef, col_args |-> <<>>,
   col_settings |-> ColumnSettingsDefault]

parse_table_col(p) ==
  try_fold(p.kids, TableFieldDefault, LAMBDA acc, p1 :
    CASE p1.rule = "ident" ->
           Try(parse_ident(p1), LAMBDA v : Ok([acc EXCEPT !.col_name = v]))
      [] p1.rule = "col_type" ->
           Try(parse_col_type(p1), LAMBDA v :
             Ok([acc EXCEPT !.col_settings.is_array = v[3],
                            !.col_args = v[2],
                            !.col_type = v[1]]))
      [] p1.rule = "col_settings" ->
           Try(parse_col_settings(p1), LAMBDA v : Ok([acc EXCEPT !.col_settings = v]))
      [] OTHER -> throw_rules(<<"ident", "col_type", "col_settings">>, p1))

-----------------------------------------------------------------------------
(* Indexes *)

IndexesTypes == {"btree", "hash"}

\* IndexesType::match_type (ast/indexes.rs), on the index-type vocabulary
IndexesType_match_type(value) ==
  CASE value \in IndexesTypes -> value

IndexesSettingsDefault ==
  [is_unique |-> FALSE, is_pk |-> FALSE, type |-> None, name |-> None, note |-> None]

parse_indexes_settings(p) ==
  try_fold(p.kids, IndexesSettingsDefault, LAMBDA acc, p1 :
    IF p1.rule = "indexes_attribute"
    THEN try_fold(p1.kids, acc, LAMBDA a, p2 :
           CASE p2.str = "unique" -> Ok([a EXCEPT !.is_unique = TRUE])
             [] p2.str = "pk" -> Ok([a EXCEPT !.is_pk = TRUE])
             [] p2.rule = "indexes_type" ->
                  Ok([a EXCEPT !.type =
                        IF Len(p2.kids) = 0 THEN None
                        ELSE Some(IndexesType_match_type(p2.kids[Len(p2.kids)].str))])
             [] p2.rule = "indexes_name" ->
                  try_fold(p2.kids, a, LAMBDA a3, p3 :
                    Try(parse_string_value(p3), LAMBDA v : Ok([a3 EXCEPT !.name = Some(v)])))
             [] p2.rule = "note_inline" ->
                  Try(parse_note_inline(p2), LAMBDA v : Ok([a EXCEPT !.note = Some(v)]))
             [] OTHER -> throw_msg(<<p2.str, "key is invalid inside indexes_attribute">>, p2))
    ELSE throw_rules(<<"indexes_attribute">>, p1))

IndexesIdentString(s) == [kind |-> "String", v |-> s]
IndexesIdentExpr(s) == [kind |-> "Expr", v |-> s]

parse_indexes_ident(p) ==
  Finish(
    try_fold(p.kids, <<>>, LAMBDA u, p1 :
      CASE p1.rule = "ident" ->
             Try(parse_ident(p1), LAMBDA value : Return(Ok(IndexesIdentString(value))))
        [] p1.rule = "backquoted_quoted_string" ->
             try_fold(p1.kids, u, LAMBDA u2, p2 :
               IF p2.rule = "backquoted_quoted_value"
               THEN Return(Ok(IndexesIdentExpr(p2.str)))
               ELSE throw_rules(<<"backquoted_quoted_value">>, p2))
        [] OTHER -> throw_rules(<<"ident", "backquoted_quoted_string">>, p1)),
    LAMBDA u : Panic("something went wrong at indexes_ident"))

IndexesDefDefault == [idents |-> <<>>, settings |-> None]

parse_indexes_single_multi(p) ==
  try_fold(p.kids, IndexesDefDefault, LAMBDA acc, p1 :
    CASE p1.rule = "indexes_ident" ->
           Try(parse_indexes_ident(p1), LAMBDA v : Ok([acc EXCEPT !.idents = Append(@, v)]))
      [] p1.rule = "indexes_settings" ->
           Try(parse_indexes_settings(p1), LAMBDA v : Ok([acc EXCEPT !.settings = Some(v)]))
      [] OTHER -> throw_rules(<<"indexes_ident", "indexes_settings">>, p1))

IndexesBlockDefault == [defs |-> <<>>]

parse_indexes_block(p) ==
  try_fold(p.kids, IndexesBlockDefault, LAMBDA acc, p1 :
    IF p1.rule \in {"indexes_single", "indexes_multi"}
    THEN Try(parse_indexes_single_multi(p1), LAMBDA v : Ok([acc EXCEPT !.defs = Append(@, v)]))
    ELSE throw_rules(<<"indexes_single", "indexes_multi">>, p1))

parse_indexes_decl(p) ==
  Finish(
    try_fold(p.kids, <<>>, LAMBDA u, p1 :
      IF p1.rule = "indexes_block" THEN Return(parse_indexes_block(p1))
      ELSE throw_rules(<<"indexes_block">>, p1)),
    LAMBDA u : Panic("something went wrong parsing indexes_decl!"))

-----------------------------------------------------------------------------
(* Declarations *)

TableBlockDefault ==
  [ident |-> [schema |-> None, name |-> "", alias |-> None],
   fields |-> <<>>, note |-> None, indexes |-> None]

parse_table_decl(p) ==
  try_fold(p.kids, TableBlockDefault, LAMBDA acc, p1 :
    CASE p1.rule = "decl_ident" ->
           Try(parse_decl_ident(p1), LAMBDA v :
             Ok([acc EXCEPT !.ident.name = v[2], !.ident.schema = v[1]]))
      [] p1.rule = "table_alias" -> Ok([acc EXCEPT !.ident.alias = Some(p1.str)])
      [] p1.rule = "table_block" ->
           try_fold(p1.kids, acc, LAMBDA a, p2 :
             CASE p2.rule = "table_col" ->
                    Try(parse_table_col(p2), LAMBDA v : Ok([a EXCEPT !.fields = Append(@, v)]))
               [] p2.rule = "note_decl" ->
                    Try(parse_note_decl(p2), LAMBDA v : Ok([a EXCEPT !.note = Some(v)]))
               [] p2.rule = "indexes_decl" ->
                    Try(parse_indexes_decl(p2), LAMBDA v : Ok([a EXCEPT !.indexes = Some(v)]))
               [] OTHER -> throw_rules(<<"table_col", "note_decl", "indexes_decl">>, p2))
      [] OTHER -> throw_rules(<<"decl_ident", "table_alias", "table_block">>, p1))

EnumValueDefault == [value |-> "", note |-> None]

parse_enum_value(p) ==
  try_fold(p.kids, EnumValueDefault, LAMBDA acc, p1 :
    CASE p1.rule = "ident" ->
           Try(parse_ident(p1), LAMBDA v : Ok([acc EXCEPT !.value = v]))
      [] p1.rule = "enum_settings" ->
           try_fold(p1.kids, acc, LAMBDA a, p2 :
             IF p2.rule = "enum_attribute"
             THEN try_fold(p2.kids, a, LAMBDA a3, p3 :
                    IF p3.rule = "note_inline"
                    THEN Try(parse_note_inline(p3), LAMBDA v : Ok([a3 EXCEPT !.note = Some(v)]))
                    ELSE throw_rules(<<"note_inline">>, p3))
             ELSE throw_rules(<<"enum_attribute">>, p2))
      [] OTHER -> throw_rules(<<"ident", "enum_settings">>, p1))

parse_enum_block(p) ==
  try_fold(p.kids, <<>>, LAMBDA acc, p1 :
    IF p1.rule = "enum_value"
    THEN Try(parse_enum_value(p1), LAMBDA v : Ok(Append(acc, v)))
    ELSE throw_rules(<<"enum_value">>, p1))

EnumBlockDefault == [ident |-> [schema |-> None, name |-> ""], values |-> <<>>]

parse_enum_decl(p) ==
  try_fold(p.kids, EnumBlockDefault, LAMBDA acc, p1 :
    CASE p1.rule = "decl_ident" ->
           Try(parse_decl_ident(p1), LAMBDA v :
             Ok([acc EXCEPT !.ident.name = v[2], !.ident.schema = v[1]]))
      [] p1.rule = "enum_block" ->
           Try(parse_enum_block(p1), LAMBDA v : Ok([acc EXCEPT !.values = v]))
      [] OTHER -> throw_rules(<<"decl_ident", "enum_block">>, p1))

TableGroupBlockDefault == [name |-> "", table_idents |-> <<>>]

parse_table_group_decl(p) ==
  try_fold(p.kids, TableGroupBlockDefault, LAMBDA acc, p1 :
    CASE p1.rule = "ident" ->
           Try(parse_ident(p1), LAMBDA v : Ok([acc EXCEPT !.name = v]))
      [] p1.rule = "table_group_block" ->
           try_fold(p1.kids, acc, LAMBDA a, p2 :
             IF p2.rule = "decl_ident"
             THEN Try(parse_decl_ident(p2), LAMBDA v :
                    Ok([a EXCEPT !.table_idents =
                          Append(@, [schema |-> v[1], ident_alias |-> v[2]])]))
             ELSE throw_rules(<<"decl_ident">>, p2))
      [] OTHER -> throw_rules(<<"ident", "table_group_block">>, p1))

\* the value is the pair (key, value)
parse_project_stmt(p) ==
  try_fold(p.kids, <<"", "">>, LAMBDA acc, p1 :
    CASE p1.rule = "project_key" -> Ok(<<p1.str, acc[2]>>)
      [] p1.rule = "string_value" ->
           Try(parse_string_value(p1), LAMBDA v : Ok(<<acc[1], v>>))
      [] OTHER -> throw_rules(<<"project_key", "string_value">>, p1))

ProjectBlockDefault == [name |-> "", database_type |-> "", note |-> None]

\* parse_project_decl with every key taken for database_type
parse_project_decl_any_key(p) ==
  try_fold(p.kids, ProjectBlockDefault, LAMBDA acc, p1 :
    CASE p1.rule = "ident" ->
           Try(parse_ident(p1), LAMBDA v : Ok([acc EXCEPT !.name = v]))
      [] p1.rule = "project_block" ->
           try_fold(p1.kids, acc, LAMBDA a, p2 :
             CASE p2.rule = "project_stmt" ->
                    Try(parse_project_stmt(p2), LAMBDA kv :
                      Ok([a EXCEPT !.database_type = kv[2]]))
               [] p2.rule = "note_decl" ->
                    Try(parse_note_decl(p2), LAMBDA v : Ok([a EXCEPT !.note = Some(v)]))
               [] OTHER -> throw_rules(<<"project_stmt", "note_decl">>, p2))
      [] OTHER -> throw_rules(<<"project_block">>, p1))

parse_project_decl(p) ==
  try_fold(p.kids, ProjectBlockDefault, LAMBDA acc, p1 :
    CASE p1.rule = "ident" ->
           Try(parse_ident(p1), LAMBDA v : Ok([acc EXCEPT !.name = v]))
      [] p1.rule = "project_block" ->
           try_fold(p1.kids, acc, LAMBDA a, p2 :
             CASE p2.rule = "project_stmt" ->
                    Try(parse_project_stmt(p2), LAMBDA kv :
                      IF kv[1] = "database_type"
                      THEN Ok([a EXCEPT !.database_type = kv[2]])
                      ELSE throw_msg(<<kv[1], "key is invalid inside project_block">>, p2))
               [] p2.rule = "note_decl" ->
                    Try(parse_note_decl(p2), LAMBDA v : Ok([a EXCEPT !.note = Some(v)]))
               [] OTHER -> throw_rules(<<"project_stmt", "note_decl">>, p2))
      [] OTHER -> throw_rules(<<"project_block">>, p1))

SchemaBlockDefault ==
  [project |-> None, tables |-> <<>>, enums |-> <<>>, refs |-> <<>>,
   table_groups |-> <<>>]

\* parse_schema with every declaration inserted at the front of its collection
parse_schema_front(p) ==
  try_fold(p.kids, SchemaBlockDefault, LAMBDA acc, p1 :
    CASE p1.rule = "project_decl" ->
           Try(parse_project_decl(p1), LAMBDA v : Ok([acc EXCEPT !.project = Some(v)]))
      [] p1.rule = "table_decl" ->
           Try(parse_table_decl(p1), LAMBDA v : Ok([acc EXCEPT !.tables = <<v>> \o @]))
      [] p1.rule = "enum_decl" ->
           Try(parse_enum_decl(p1), LAMBDA v : Ok([acc EXCEPT !.enums = <<v>> \o @]))
      [] p1.rule = "ref_decl" ->
           Try(parse_ref_decl(p1), LAMBDA v : Ok([acc EXCEPT !.refs = <<v>> \o @]))
      [] p1.rule = "table_group_decl" ->
           Try(parse_table_group_decl(p1), LAMBDA v : Ok([acc EXCEPT !.table_groups = <<v>> \o @]))
      [] p1.rule = "EOI" -> Ok(acc)
      [] OTHER -> throw_rules(<<"project_decl", "table_decl", "enum_decl", "ref_decl",
                                "table_group_decl">>, p1))

parse_schema(p) ==
  try_fold(p.kids, SchemaBlockDefault, LAMBDA acc, p1 :
    CASE p1.rule = "project_decl" ->
           Try(parse_project_decl(p1), LAMBDA v : Ok([acc EXCEPT !.project = Some(v)]))
      [] p1.rule = "table_decl" ->
           Try(parse_table_decl(p1), LAMBDA v : Ok([acc EXCEPT !.tables = Append(@, v)]))
      [] p1.rule = "enum_decl" ->
           Try(parse_enum_decl(p1), LAMBDA v : Ok([acc EXCEPT !.enums = Append(@, v)]))
      [] p1.rule = "ref_decl" ->
           Try(parse_ref_decl(p1), LAMBDA v : Ok([acc EXCEPT !.refs = Append(@, v)]))
      [] p1.rule = "table_group_decl" ->
           Try(parse_table_group_decl(p1), LAMBDA v : Ok([acc EXCEPT !.table_groups = Append(@, v)]))
      [] p1.rule = "EOI" -> Ok(acc)
      [] OTHER -> throw_rules(<<"project_decl", "table_decl", "enum_decl", "ref_decl",
                                "table_group_decl">>, p1))

\* pairs is what DBMLParser::parse(Rule::schema, input) gave: the grammar's
\* syntax error, or the top-level pairs
parse(pairs) ==
  IF pairs.tag # "Ok" THEN pairs
  ELSE Finish(
         try_fold(pairs.val, <<>>, LAMBDA u, pr :
           IF pr.rule = "schema" THEN Return(parse_schema(pr))
           ELSE throw_rules(<<"schema">>, pr)),
         LAMBDA u : Panic("unhandled parsing error!"))

-----------------------------------------------------------------------------
(* The transpiler (src/src/transpiler/mod.rs).  A file system is a function  *)
(* from paths to entries: absent, a directory, or a file with its content.  *)
(* The generated text is the sequence of its lines, each line a tuple of    *)
(* the parts that format! puts together.                                    *)

Absent == [kind |-> "absent"]
Dir == [kind |-> "dir"]
File(content) == [kind |-> "file", content |-> content]

\* std::io::Error
Error_new(kind, msg) == [io |-> kind, message |-> msg]

Target_SeaORMPostgreSQL == "SeaORMPostgreSQL"

Config_new(in_path, target) ==
  [in_path |-> in_path, out_path |-> None, target |-> target]

set_out_path(self, path) == [self EXCEPT !.out_path = Some(path)]

\* fs::read_to_string
read_to_string(fs, path) ==
  CASE fs[path].kind = "file" -> Ok(fs[path].content)
    [] fs[path].kind = "dir" -> Err(Error_new("IsADirectory", "Is a directory"))
    [] OTHER -> Err(Error_new("NotFound", "No such file or directory"))

\* env::var_os
var_os(e, key) == e[key]

\* Option::ok_or_else
ok_or_else(opt, err) == IF opt.some THEN Ok(opt.val) ELSE Err(err)

\* Result::unwrap_or_else(|e| panic!("{}", e)); a panic inside r unwinds as it is
unwrap_or_else_panic(r) ==
  CASE r.tag = "Err" -> Panic(r.err)
    [] OTHER -> r

\* SchemaBlock::into_semantic: the tables and enums the generator reads
into_semantic(ast) == [tables |-> ast.tables, enums |-> ast.enums, resolved |-> TRUE]

RECURSIVE Concat(_)
Concat(seqs) == IF seqs = <<>> THEN <<>> ELSE Head(seqs) \o Concat(Tail(seqs))

\* the lines of one field of pub struct Model
FieldLines(field) ==
  (IF field.col_settings.is_pk THEN << <<"#[sea_orm]", <<"primary_key">> >> >>
   ELSE IF field.col_settings.is_nullable THEN << <<"#[sea_orm]", <<"nullable">> >> >>
   ELSE <<>>)
  \o << <<"pub", field.col_name,
          IF field.col_settings.is_nullable
          THEN <<"Option", <<"to_rust_sea_orm_type", field.col_type>> >>
          ELSE <<"to_rust_sea_orm_type", field.col_type>> >> >>

\* the lines of pub mod <table>
TableLines(table) ==
  << <<"skip">>, <<"pub mod", table.ident.name>>,
     <<"table_name", table.ident.name,
       IF table.ident.schema.some THEN table.ident.schema.val ELSE "public">>,
     <<"pub struct Model">> >>
  \o Concat([j \in 1..Len(table.fields) |-> FieldLines(table.fields[j])])
  \o << <<"pub enum Relation">>, <<"impl ActiveModelBehavior for ActiveModel {}">> >>

\* the lines of pub enum <enum>
EnumLines(enum) ==
  << <<"skip">>,
     <<"enum_name", enum.ident.name,
       IF enum.ident.schema.some THEN enum.ident.schema.val ELSE "public">>,
     <<"pub enum", <<"to_pascal_case", enum.ident.name>> >> >>
  \o Concat([i \in 1..Len(enum.values) |->
       << <<"num_value", i - 1>>, <<"to_pascal_case", enum.values[i].value>> >>])

transpile_sea_orm_postgresql(ast) ==
  Ok(<< <<"//! Generated by", "NAME", "VERSION">>, <<"skip">>,
        <<"use sea_orm::entity::prelude::*;">> >>
     \o Concat([i \in 1..Len(ast.tables) |-> TableLines(ast.tables[i])])
     \o Concat([i \in 1..Len(ast.enums) |-> EnumLines(ast.enums[i])]))

transpile(ast, target) ==
  CASE target = Target_SeaORMPostgreSQL -> transpile_sea_orm_postgresql(ast)

\* File::create(path)?.write_all(text): the outcome and the file system after
File_create_write_all(fs, path, text) ==
  IF fs[path].kind = "dir"
  THEN [result |-> Err(Error_new("IsADirectory", "Is a directory")), files |-> fs]
  ELSE [result |-> Ok(<<>>), files |-> [fs EXCEPT ![path] = File(text)]]

\* the path transpile writes to
resolve_out_path(self, e) ==
  IF self.out_path.some THEN Ok(self.out_path.val)
  ELSE ok_or_else(var_os(e, "OUT_DIR"),
                  Error_new("Other", "OUT_DIR environment variable is not set"))

\* Config::transpile in environment e on file system fs, where pairs is what
\* the grammar engine makes of the input file's text: the outcome and the file
\* system after
Config_transpile(self, e, fs, pairs) ==
  LET stop(r) == [result |-> r, files |-> fs]
      upto(r, K(_)) == IF r.tag = "Ok" THEN K(r.val) ELSE stop(r)
  IN upto(read_to_string(fs, self.in_path), LAMBDA raw_in :
     upto(unwrap_or_else_panic(parse(pairs)), LAMBDA out_ast :
     upto(unwrap_or_else_panic(transpile(into_semantic(out_ast), self.target)), LAMBDA text :
     upto(resolve_out_path(self, e), LAMBDA out_path :
       File_create_write_all(fs, out_path, text)))))

-----------------------------------------------------------------------------
(* Parse trees given to the reducer.  A node's text is written out where the *)
(* reducer reads it (as_str) and is "" for the other nodes.                  *)

\* all sequences over S of length 0..n
SeqsUpTo(S, n) == UNION {[1..k -> S] : k \in 0..n}

Leaf(rule, str) == Node(rule, str, <<>>)
\* a node of a rule the reducer handles nowhere
Stray == Leaf("COMMENT", "")

IdentVar(n) == Node("ident", n, <<Leaf("var", n)>>)
IdentQuoted(n) ==
  Node("ident", "", <<Node("double_quoted_string", "", <<Leaf("double_quoted_value", n)>>)>>)
Names == {"a", "b"}
IdentNodes == {IdentVar(n) : n \in Names} \cup {IdentQuoted("b")}

SingleQuoted(t) ==
  Node("string_value", "", <<Node("single_quoted_string", "", <<Leaf("single_quoted_value", t)>>)>>)
TripleQuoted(t) ==
  Node("string_value", "", <<Node("triple_quoted_string", "", <<Leaf("triple_quoted_value", t)>>)>>)

IntegerTexts == {"0", "42", "2147483647", "2147483648", "99999999999", "-1",
                 "-2147483648", "-2147483649", "12a", ""}
DecimalTexts == {"3.14", "0.5", "1.", "12a"}
BooleanTexts == {"true", "false", "null", "maybe"}

IntegerLit(rule, t) == Node(rule, t, <<Node("number_value", t, <<Leaf("integer", t)>>)>>)
DecimalLit(rule, t) == Node(rule, t, <<Node("number_value", t, <<Leaf("decimal", t)>>)>>)
BooleanLit(rule, t) == Node(rule, t, <<Node("boolean_value", t, <<Leaf("boolean", t)>>)>>)
StringLit(rule, t) == Node(rule, "", <<SingleQuoted(t)>>)

\* the children parse_value is given, well formed or not
ValueNodes(rule) ==
  {IntegerLit(rule, t) : t \in IntegerTexts}
  \cup {DecimalLit(rule, t) : t \in DecimalTexts}
  \cup {BooleanLit(rule, t) : t \in BooleanTexts}
  \cup {StringLit(rule, "x"), Node(rule, "", <<TripleQuoted("y")>>)}
  \cup {Node(rule, "", <<>>), Node(rule, "", <<Stray>>),
        Node(rule, "", <<Node("number_value", "", <<>>)>>),
        Node(rule, "", <<Node("number_value", "", <<Stray>>)>>),
        Node(rule, "", <<Node("boolean_value", "", <<>>), SingleQuoted("x")>>),
        Node(rule, "", <<SingleQuoted("x"), Stray>>),
        Node(rule, "42", <<Node("number_value", "42", <<Leaf("integer", "42"), Stray>>)>>)}

DeclIdentNodes ==
  {Node("decl_ident", "", kids) : kids \in SeqsUpTo(IdentNodes, MaxTokens)}
  \cup {Node("decl_ident", "", <<IdentVar("a"), Stray>>),
        Node("decl_ident", "", <<Node("ident", "", <<>>)>>)}

RefComposition(cols) == Node("ref_composition", "", cols)
RefIdentNodes ==
  {Node("ref_ident", "", toks \o comp) :
     toks \in SeqsUpTo({IdentVar("a"), IdentVar("b")}, MaxTokens),
     comp \in {<<>>, <<RefComposition(<<>>)>>, <<RefComposition(<<IdentVar("c")>>)>>,
               <<RefComposition(<<IdentVar("c"), IdentQuoted("d")>>)>>,
               <<RefComposition(<<IdentVar("c"), Stray>>)>>, <<Stray>>}}

\* table.column on one side of a relationship
RefSide(t, c) == Node("ref_ident", "", <<IdentVar(t), RefComposition(<<IdentVar(c)>>)>>)
RelSettings ==
  Node("rel_settings", "", <<Node("rel_attribute", "",
     <<Node("rel_delete", "", <<Leaf("rel_action", "cascade")>>)>>)>>)
RefStmtKids ==
  {Leaf("relation", op) : op \in RelationOperators}
  \cup {RefSide("A", "x"), RefSide("B", "y"), RefSide("C", "z"), RelSettings, Stray}
RefStmtNodes(rule) == {Node(rule, "", kids) : kids \in SeqsUpTo(RefStmtKids, MaxRefKids)}
\* statements of one child more, over one operator and the three sides: three
\* identifier groups around the operator, wherever it stands
LongRefStmtNodes ==
  {Node("ref_stmt", "", kids) :
     kids \in [1..(MaxRefKids + 1) ->
                {Leaf("relation", ">"), RefSide("A", "x"), RefSide("B", "y"), RefSide("C", "z")}]}

ColumnKeywords == {"unique", "primary key", "pk", "null", "not null", "increment"}

KeywordAttr(k) == Leaf("col_attribute", k)
DefaultAttr == Node("col_attribute", "default: 42", <<IntegerLit("col_default", "42")>>)
NoteAttr == Node("col_attribute", "note: 'n'", <<Node("note_inline", "", <<SingleQuoted("n")>>)>>)
RefAttr ==
  Node("col_attribute", "ref: > B.y",
       <<Node("ref_inline", "", <<Leaf("relation", ">"), RefSide("B", "y")>>)>>)
\* texts that are no keyword as the reducer compares them, without children
BareAttrs == {Leaf("col_attribute", "PK"), Leaf("col_attribute", "Not Null")}
\* a text that is no keyword, with a child that is none of the three sub-forms
OddAttr == Node("col_attribute", "size: 4", <<Leaf("col_size", "size: 4")>>)

ColSettingsKids ==
  {KeywordAttr(k) : k \in ColumnKeywords}
  \cup {DefaultAttr, NoteAttr, RefAttr, OddAttr, Stray} \cup BareAttrs
ColSettingsNodes ==
  {Node("col_settings", "", kids) : kids \in SeqsUpTo(ColSettingsKids, MaxAttrs)}

ColTypeArg == Node("col_type_arg", "", <<IntegerLit("value", "42")>>)
ColTypeKids ==
  {Node(r, "", <<Leaf("var", "int")>> \o args) :
     r \in {"col_type_single", "col_type_array"}, args \in {<<>>, <<ColTypeArg>>}}
  \cup {Node("col_type_array", "", <<Leaf("var", "int"), Stray>>), Stray}
ColTypeNodes == {Node("col_type", "", kids) : kids \in SeqsUpTo(ColTypeKids, MaxColKids)}

TableColKids ==
  {IdentVar("a")}
  \cup {Node("col_type", "", <<k>>) : k \in ColTypeKids}
  \cup {Node("col_settings", "", kids) :
          kids \in {<<>>, <<KeywordAttr("pk")>>, <<NoteAttr>>, <<Stray>>}}
  \cup {Stray}
TableColNodes == {Node("table_col", "", kids) : kids \in SeqsUpTo(TableColKids, MaxColKids)}

ProjectStmt(key, v) ==
  Node("project_stmt", "", <<Leaf("project_key", key), SingleQuoted(v)>>)
NoteDecl(t) == Node("note_decl", "", <<Node("note_short", "", <<SingleQuoted(t)>>)>>)
ProjectKeys == {"database_type", "foo", "bar"}
ProjectBlockKids ==
  {ProjectStmt(k, "v") : k \in ProjectKeys}
  \cup {NoteDecl("n"), Node("project_stmt", "", <<SingleQuoted("v")>>), Stray}
ProjectDeclNodes ==
  {Node("project_decl", "", name \o <<Node("project_block", "", kids)>>) :
     name \in {<<>>, <<IdentVar("a")>>}, kids \in SeqsUpTo(ProjectBlockKids, MaxStmts)}
  \cup {Node("project_decl", "", <<Stray>>), Node("project_decl", "", <<>>)}

DeclIdent(toks) == Node("decl_ident", "", [i \in 1..Len(toks) |-> IdentVar(toks[i])])
TableCol(n, kids) == Node("table_col", "", <<IdentVar(n)>> \o kids)
IntType == Node("col_type", "", <<Node("col_type_single", "", <<Leaf("var", "int")>>)>>)
TableDecl(toks, blockKids) ==
  Node("table_decl", "", <<DeclIdent(toks), Node("table_block", "", blockKids)>>)
EnumDecl(toks, vals) ==
  Node("enum_decl", "",
       <<DeclIdent(toks),
         Node("enum_block", "", [i \in 1..Len(vals) |-> Node("enum_value", "", <<IdentVar(vals[i])>>)])>>)
RefStmt(l, op, r) == Node("ref_stmt", "", <<RefSide(l, "x"), Leaf("relation", op), RefSide(r, "y")>>)
RefDecl(l, op, r) == Node("ref_decl", "", <<Node("ref_short", "", <<RefStmt(l, op, r)>>)>>)
TableGroupDecl(n, toks) ==
  Node("table_group_decl", "", <<IdentVar(n), Node("table_group_block", "", <<DeclIdent(toks)>>)>>)
ProjectDecl(key) ==
  Node("project_decl", "", <<IdentVar("p"), Node("project_block", "", <<ProjectStmt(key, "v")>>)>>)
EOI == Leaf("EOI", "")

\* well-formed declarations, two of each kind that lists
SchemaKids ==
  {TableDecl(<<"t1">>, <<TableCol("a", <<IntType>>)>>), TableDecl(<<"s", "t2">>, <<>>),
   EnumDecl(<<"e1">>, <<"u", "v">>), EnumDecl(<<"s", "e2">>, <<"w">>),
   RefDecl("A", ">", "B"), RefDecl("B", "-", "A"),
   TableGroupDecl("g1", <<"t1">>), TableGroupDecl("g2", <<"s", "t2">>),
   ProjectDecl("database_type"), EOI}

\* a child of a rule its parent does not handle, after the first child the
\* parent accepts: below a ref_decl, a note_decl, an indexes_decl, an
\* indexes_ident, a value and an ident
IndexesDecl(blockTail, identTail) ==
  Node("indexes_decl", "",
       <<Node("indexes_block", "",
            <<Node("indexes_single", "",
                 <<Node("indexes_ident", "", <<IdentVar("a")>> \o identTail)>>)>>)>>
       \o blockTail)
TrailingStrayKids ==
  {Node("ref_decl", "", <<Node("ref_short", "", <<RefStmt("A", ">", "B"), Stray>>)>>),
   Node("ref_decl", "", <<Node("ref_short", "", <<RefStmt("A", ">", "B")>>), Stray>>),
   TableDecl(<<"t1">>, <<Node("note_decl", "", <<Node("note_short", "", <<SingleQuoted("n"), Stray>>)>>)>>),
   TableDecl(<<"t1">>, <<Node("note_decl", "", <<Node("note_short", "", <<SingleQuoted("n")>>), Stray>>)>>),
   TableDecl(<<"t1">>, <<IndexesDecl(<<Stray>>, <<>>)>>),
   TableDecl(<<"t1">>, <<IndexesDecl(<<>>, <<Stray>>)>>),
   TableDecl(<<"t1">>, <<TableCol("a", <<Node("col_type", "",
       <<Node("col_type_single", "", <<Leaf("var", "int"),
            Node("col_type_arg", "", <<Node("value", "", <<SingleQuoted("x"), Stray>>)>>)>>)>>)>>)>>),
   TableDecl(<<"t1">>, <<Node("table_col", "", <<Node("ident", "a", <<Leaf("var", "a"), Stray>>), IntType>>)>>)}

\* a child of a rule its parent does not handle, as the first or only child
LeadingStrayKids ==
  {Stray,
   TableDecl(<<"t1">>, <<Stray>>),
   TableDecl(<<"t1">>, <<TableCol("a", <<Node("col_type", "", <<Stray>>)>>)>>),
   Node("ref_decl", "", <<Node("ref_short", "", <<Stray, RefStmt("A", ">", "B")>>)>>),
   Node("enum_decl", "", <<DeclIdent(<<"e1">>), Node("enum_block", "", <<Stray>>)>>),
   Node("project_decl", "", <<Stray>>),
   TableDecl(<<"t1">>, <<TableCol("a", <<IntType, Node("col_settings", "", <<OddAttr>>)>>)>>),
   ProjectDecl("foo")}

\* relationships whose sides are incomplete: a side without a column list, a
\* statement that ends at the relation operator, at top level and inline
BareRefSide(t) == Node("ref_ident", "", <<IdentVar(t)>>)
BareRefKids ==
  {Node("ref_decl", "", <<Node("ref_short", "",
      <<Node("ref_stmt", "", <<RefSide("A", "x"), Leaf("relation", ">"), BareRefSide("B")>>)>>)>>),
   Node("ref_decl", "", <<Node("ref_short", "",
      <<Node("ref_stmt", "", <<BareRefSide("A"), Leaf("relation", ">"), RefSide("B", "y")>>)>>)>>),
   Node("ref_decl", "", <<Node("ref_block", "",
      <<Node("ref_stmt", "", <<RefSide("A", "x"), Leaf("relation", ">")>>)>>)>>),
   TableDecl(<<"t1">>, <<TableCol("a", <<IntType, Node("col_settings", "",
      <<Node("col_attribute", "ref: > B",
           <<Node("ref_inline", "", <<Leaf("relation", ">"), BareRefSide("B")>>)>>)>>)>>)>>),
   TableDecl(<<"t1">>, <<TableCol("a", <<IntType, Node("col_settings", "", <<RefAttr>>)>>)>>)}

SchemaNodes ==
  {Node("schema", "", kids) : kids \in SeqsUpTo(SchemaKids, MaxDecls)}
  \cup {Node("schema", "", before \o <<k>> \o <<EOI>>) :
          k \in BareRefKids, before \in {<<>>, <<RefDecl("A", ">", "B")>>}}
  \cup {Node("schema", "", before \o <<k>> \o after) :
          k \in TrailingStrayKids \cup LeadingStrayKids,
          before \in {<<>>, <<TableDecl(<<"s", "t2">>, <<>>)>>},
          after \in {<<>>, <<EOI>>}}

\* what DBMLParser::parse gives parse
ParserOutputs ==
  {Ok(<<n>>) : n \in SchemaNodes}
  \cup {Ok(<<>>), Ok(<<Stray>>), Err([kind |-> "SyntaxError"])}

-----------------------------------------------------------------------------
(* The state machine: a call of one reduction function on one parse tree,   *)
(* or of Config::transpile after any number of set_out_path.  pair is the   *)
(* argument (for transpile, what the grammar engine makes of the input      *)
(* file), called the function, result its outcome once the call has been    *)
(* made; config is the Config, env the process environment and files the    *)
(* file system.                                                             *)

Pending == [tag |-> "Pending"]

Inputs(f) ==
  CASE f = "parse" -> ParserOutputs
    [] f = "parse_project_decl" -> ProjectDeclNodes
    [] f = "parse_table_col" -> TableColNodes
    [] f = "parse_col_type" -> ColTypeNodes
    [] f = "parse_col_settings" -> ColSettingsNodes
    [] f = "parse_ref_stmt_inline" ->
         RefStmtNodes("ref_stmt") \cup RefStmtNodes("ref_inline") \cup LongRefStmtNodes
    [] f = "parse_ref_ident" -> RefIdentNodes
    [] f = "parse_decl_ident" -> DeclIdentNodes
    [] f = "parse_value" -> ValueNodes("value") \cup ValueNodes("col_default")

Functions ==
  {"parse", "parse_project_decl", "parse_table_col", "parse_col_type",
   "parse_col_settings", "parse_ref_stmt_inline", "parse_ref_ident",
   "parse_decl_ident", "parse_value"}

\* the paths of the model: the input file, an output file, the build directory
InPath == "schema.dbml"
OutPaths == {"out.rs", "target/out"}
Paths == {InPath} \cup OutPaths

\* the process environment: OUT_DIR unset, or set to one of the paths
Environments == {[OUT_DIR |-> v] : v \in {None} \cup {Some(q) : q \in OutPaths}}

\* the file systems a call of transpile may find: the input file there or not,
\* an earlier output file there or not, the build directory there or not
FileSystems ==
  {[q \in Paths |->
      CASE q = InPath -> in
        [] q = "out.rs" -> out
        [] OTHER -> dir] :
     in \in {Absent, File("dbml")}, out \in {Absent, File(<<>>)}, dir \in {Absent, Dir}}

\* what the grammar engine makes of the texts given to transpile: two schemas,
\* a text with a syntax error, a schema the reducer rejects, and one on which
\* it panics
TranspileInputs ==
  {Ok(<<Node("schema", "", <<TableDecl(<<"t1">>, <<TableCol("a", <<IntType>>)>>), EOI>>)>>),
   Ok(<<Node("schema", "", <<TableDecl(<<"s", "t2">>, <<>>), EnumDecl(<<"e1">>, <<"u", "v">>), EOI>>)>>),
   Err([kind |-> "SyntaxError"]),
   Ok(<<Node("schema", "", <<TableDecl(<<"t1">>, <<Stray>>)>>)>>),
   Ok(<<Node("schema", "", <<TableDecl(<<"t1">>, <<TableCol("a",
      <<IntType, Node("col_settings", "",
          <<Node("col_attribute", "default: 2147483648",
               <<IntegerLit("col_default", "2147483648")>>)>>)>>)>>)>>)>>)}

\* a process that only calls the reducer: no output path, no OUT_DIR, no files
IdleFiles == [q \in Paths |-> Absent]

Init ==
  /\ called \in Functions \cup {"transpile"}
  /\ result = Pending
  /\ config = Config_new(InPath, Target_SeaORMPostgreSQL)
  /\ IF called = "transpile"
     THEN pair \in TranspileInputs /\ env \in Environments /\ files \in FileSystems
     ELSE pair \in Inputs(called) /\ env = [OUT_DIR |-> None] /\ files = IdleFiles

CallParse ==
  /\ called = "parse"
  /\ result = Pending
  /\ result' = parse(pair)
  /\ UNCHANGED <<pair, called, config, env, files>>

CallParseProjectDecl ==
  /\ called = "parse_project_decl"
  /\ result = Pending
  /\ result' = parse_project_decl(pair)
  /\ UNCHANGED <<pair, called, config, env, files>>

CallParseTableCol ==
  /\ called = "parse_table_col"
  /\ result = Pending
  /\ result' = parse_table_col(pair)
  /\ UNCHANGED <<pair, called, config, env, files>>

CallParseColType ==
  /\ called = "parse_col_type"
  /\ result = Pending
  /\ result' = parse_col_type(pair)
  /\ UNCHANGED <<pair, called, config, env, files>>

CallParseColSettings ==
  /\ called = "parse_col_settings"
  /\ result = Pending
  /\ result' = parse_col_settings(pair)
  /\ UNCHANGED <<pair, called, config, env, files>>

CallParseRefStmtInline ==
  /\ called = "parse_ref_stmt_inline"
  /\ result = Pending
  /\ result' = parse_ref_stmt_inline(pair)
  /\ UNCHANGED <<pair, called, config, env, files>>

CallParseRefIdent ==
  /\ called = "parse_ref_ident"
  /\ result = Pending
  /\ result' = parse_ref_ident(pair)
  /\ UNCHANGED <<pair, called, config, env, files>>

CallParseDeclIdent ==
  /\ called = "parse_decl_ident"
  /\ result = Pending
  /\ result' = parse_decl_ident(pair)
  /\ UNCHANGED <<pair, called, config, env, files>>

CallParseValue ==
  /\ called = "parse_value"
  /\ result = Pending
  /\ result' = parse_value(pair)
  /\ UNCHANGED <<pair, called, config, env, files>>

\* Config::set_out_path, before the call of transpile
SetOutPath ==
  /\ called = "transpile"
  /\ result = Pending
  /\ \E path \in OutPaths : config' = set_out_path(config, path)
  /\ UNCHANGED <<pair, called, result, env, files>>

CallTranspile ==
  /\ called = "transpile"
  /\ result = Pending
  /\ result' = Config_transpile(config, env, files, pair).result
  /\ files' = Config_transpile(config, env, files, pair).files
  /\ UNCHANGED <<pair, called, config, env>>

Next ==
  \/ CallParse
  \/ CallParseProjectDecl
  \/ CallParseTableCol
  \/ CallParseColType
  \/ CallParseColSettings
  \/ CallParseRefStmtInline
  \/ CallParseRefIdent
  \/ CallParseDeclIdent
  \/ CallParseValue
  \/ SetOutPath
  \/ CallTranspile

Spec == Init /\ [][Next]_vars

Done(f) == called = f /\ result # Pending

-----------------------------------------------------------------------------
(* Reading a parse tree, for the properties below *)

Select(kids, rule) == SelectSeq(kids, LAMBDA k : k.rule = rule)
Rules(kids) == {kids[i].rule : i \in 1..Len(kids)}
Range(q) == {q[i] : i \in 1..Len(q)}

\* the name an ident node written by IdentVar or IdentQuoted stands for
NameOf(ident) ==
  IF ident.kids[1].rule = "var" THEN ident.kids[1].str
  ELSE ident.kids[1].kids[1].str

\* the last token of the decl_ident of a table_decl or an enum_decl
DeclName(decl) ==
  LET toks == Select(decl.kids, "decl_ident")[1].kids
  IN NameOf(toks[Len(toks)])

\* the child kinds each construct's match handles; a construct that reads no
\* child kinds handles them all
Handles(parent, kind) ==
  LET r == parent.rule
  IN CASE r = "schema" -> kind \in {"project_decl", "table_decl", "enum_decl", "ref_decl",
                                    "table_group_decl", "EOI"}
       [] r = "project_decl" -> kind \in {"ident", "project_block"}
       [] r = "project_block" -> kind \in {"project_stmt", "note_decl"}
       [] r = "project_stmt" -> kind \in {"project_key", "string_value"}
       [] r = "table_decl" -> kind \in {"decl_ident", "table_alias", "table_block"}
       [] r = "table_block" -> kind \in {"table_col", "note_decl", "indexes_decl"}
       [] r = "table_col" -> kind \in {"ident", "col_type", "col_settings"}
       [] r = "col_type" -> kind \in {"col_type_single", "col_type_array"}
       [] r \in {"col_type_single", "col_type_array"} -> kind \in {"var", "col_type_arg"}
       [] r = "col_type_arg" -> kind = "value"
       [] r = "col_settings" -> kind = "col_attribute"
       [] r = "col_attribute" ->
            parent.str \in ColumnKeywords \/ kind \in {"col_default", "note_inline", "ref_inline"}
       [] r = "enum_decl" -> kind \in {"decl_ident", "enum_block"}
       [] r = "enum_block" -> kind = "enum_value"
       [] r = "enum_value" -> kind \in {"ident", "enum_settings"}
       [] r = "enum_settings" -> kind = "enum_attribute"
       [] r = "enum_attribute" -> kind = "note_inline"
       [] r = "ref_decl" -> kind \in {"ref_block", "ref_short"}
       [] r \in {"ref_block", "ref_short"} -> kind = "ref_stmt"
       [] r \in {"ref_stmt", "ref_inline"} -> kind \in {"relation", "ref_ident", "rel_settings"}
       [] r = "ref_ident" -> kind \in {"ident", "ref_composition"}
       [] r = "ref_composition" -> kind = "ident"
       [] r = "table_group_decl" -> kind \in {"ident", "table_group_block"}
       [] r = "table_group_block" -> kind = "decl_ident"
       [] r = "rel_settings" -> kind = "rel_attribute"
       [] r = "rel_attribute" -> kind \in {"rel_update", "rel_delete"}
       [] r = "note_decl" -> kind \in {"note_short", "note_block"}
       [] r \in {"note_short", "note_block", "note_inline"} -> kind = "string_value"
       [] r = "indexes_decl" -> kind = "indexes_block"
       [] r = "indexes_block" -> kind \in {"indexes_single", "indexes_multi"}
       [] r \in {"indexes_single", "indexes_multi"} -> kind \in {"indexes_ident", "indexes_settings"}
       [] r = "indexes_ident" -> kind \in {"ident", "backquoted_quoted_string"}
       [] r = "backquoted_quoted_string" -> kind = "backquoted_quoted_value"
       [] r = "indexes_settings" -> kind = "indexes_attribute"
       [] r = "string_value" -> kind \in {"triple_quoted_string", "single_quoted_string"}
       [] r = "triple_quoted_string" -> kind = "triple_quoted_value"
       [] r = "single_quoted_string" -> kind = "single_quoted_value"
       [] r \in {"value", "col_default"} -> kind \in {"string_value", "number_value", "boolean_value"}
       [] r = "number_value" -> kind \in {"decimal", "integer"}
       [] r = "decl_ident" -> kind = "ident"
       [] r = "ident" -> kind \in {"var", "double_quoted_string"}
       [] OTHER -> TRUE

\* no node of the tree has a child of a kind its parent does not handle
RECURSIVE WellShaped(_)
WellShaped(n) ==
  \A i \in 1..Len(n.kids) : Handles(n, n.kids[i].rule) /\ WellShaped(n.kids[i])

-----------------------------------------------------------------------------
(* Properties *)

\* the schema node of a successful call of parse
SchemaOf(pairs) == pairs.val[1]

\* the elements a collection must hold: the reduction F of every child of the
\* given rule, in the order of the children
Reduced(kids, rule, F(_)) ==
  [i \in 1..Len(Select(kids, rule)) |-> F(Select(kids, rule)[i]).val]

\* C1: when parse succeeds, tables, enums, refs and table_groups each hold
\* exactly the reductions of the schema node's table_decl, enum_decl, ref_decl
\* and table_group_decl children, one per child and in the children's order
C1_DeclarationOrder ==
  Done("parse") /\ result.tag = "Ok" =>
    /\ result.val.tables = Reduced(SchemaOf(pair).kids, "table_decl", parse_table_decl)
    /\ result.val.enums = Reduced(SchemaOf(pair).kids, "enum_decl", parse_enum_decl)
    /\ result.val.refs = Reduced(SchemaOf(pair).kids, "ref_decl", parse_ref_decl)
    /\ result.val.table_groups =
         Reduced(SchemaOf(pair).kids, "table_group_decl", parse_table_group_decl)
    /\ \A i \in 1..Len(result.val.tables) :
         result.val.tables[i].ident.name
           = DeclName(Select(SchemaOf(pair).kids, "table_decl")[i])
    /\ \A i \in 1..Len(result.val.enums) :
         result.val.enums[i].ident.name
           = DeclName(Select(SchemaOf(pair).kids, "enum_decl")[i])

\* two tables declared t2 then t1 around an enum come out as t2 then t1
C1_Witness ==
  /\ Done("parse") /\ result.tag = "Ok"
  /\ Len(result.val.tables) = 2 /\ Len(result.val.enums) = 1
  /\ SchemaOf(pair).kids[2].rule = "enum_decl"
  /\ result.val.tables[1].ident.name = "t2"
  /\ result.val.tables[2].ident.name = "t1"

\* C2: a parse tree in which some node has a child of a kind its parent does
\* not handle never reduces to a SchemaBlock
C2_AllOrNothing ==
  Done("parse") /\ pair.tag = "Ok" /\ pair.val # <<>> /\ ~WellShaped(SchemaOf(pair)) =>
    result.tag # "Ok"

\* a table_col with one col_type child, declared as an array type
ArrayColumn(p) ==
  /\ Len(Select(p.kids, "col_type")) = 1
  /\ Rules(Select(p.kids, "col_type")[1].kids) = {"col_type_array"}

\* C3: the TableField of a column of an array type has is_array = true,
\* whatever its type arguments and whether or not col_settings follow
C3_ArrayFlag ==
  Done("parse_table_col") /\ result.tag = "Ok" /\ ArrayColumn(pair) =>
    result.val.col_settings.is_array = TRUE

\* the RefIdent of a side written by RefSide
SideOf(n) ==
  [schema |-> None, table |-> NameOf(n.kids[1]),
   compositions |-> <<NameOf(n.kids[2].kids[1])>>]

\* the place of the first relation child (past the end when there is none)
Pivot(kids) ==
  IF "relation" \in Rules(kids)
  THEN CHOOSE i \in 1..Len(kids) :
         kids[i].rule = "relation" /\ \A j \in 1..(i - 1) : kids[j].rule # "relation"
  ELSE Len(kids) + 1

\* the last ref_ident child among the places S, if any
LastSide(kids, S) ==
  IF \E i \in S : kids[i].rule = "ref_ident"
  THEN Some(SideOf(kids[CHOOSE i \in S : kids[i].rule = "ref_ident"
                          /\ \A j \in S : kids[j].rule = "ref_ident" => j <= i]))
  ELSE None

\* C4: the relation child is a pivot: the ref_ident before it becomes lhs,
\* the ref_ident after it becomes rhs (the last one on either side when there
\* are several); without a ref_ident before it lhs stays None
C4_PivotRule ==
  Done("parse_ref_stmt_inline") /\ WellShaped(pair) =>
    /\ result.tag = "Ok"
    /\ result.val.lhs = LastSide(pair.kids, 1..(Pivot(pair.kids) - 1))
    /\ result.val.rhs =
         IF LastSide(pair.kids, (Pivot(pair.kids) + 1)..Len(pair.kids)).some
         THEN LastSide(pair.kids, (Pivot(pair.kids) + 1)..Len(pair.kids)).val
         ELSE RefIdentDefault

\* `A <> B` gives lhs = Some(A) and rhs = B
C4_Witness ==
  /\ Done("parse_ref_stmt_inline")
  /\ Len(pair.kids) = 3
  /\ pair.kids[2] = Leaf("relation", "<>")
  /\ result.tag = "Ok"
  /\ result.val.lhs = Some([schema |-> None, table |-> "A", compositions |-> <<"x">>])
  /\ result.val.rhs = [schema |-> None, table |-> "B", compositions |-> <<"y">>]

\* a relation operator followed by one ref_ident gives lhs = None
C4_ShortFormWitness ==
  /\ Done("parse_ref_stmt_inline")
  /\ Len(pair.kids) = 2
  /\ pair.kids[1].rule = "relation"
  /\ result.tag = "Ok"
  /\ result.val.lhs = None
  /\ result.val.rhs = [schema |-> None, table |-> "B", compositions |-> <<"y">>]

\* the col_settings node with only the first k children of p
Prefix(p, k) == Node(p.rule, p.str, SubSeq(p.kids, 1, k))
\* the accumulator of parse_col_settings after the first k children of p
AccAfter(p, k) == parse_col_settings(Prefix(p, k)).val

IsKeyword(a) == a.rule = "col_attribute" /\ a.str \in ColumnKeywords

\* what the spec gives each keyword to do to the accumulator
KeywordEffect(acc, kw) ==
  CASE kw = "unique" -> [acc EXCEPT !.is_unique = TRUE]
    [] kw \in {"primary key", "pk"} -> [acc EXCEPT !.is_pk = TRUE]
    [] kw = "null" -> [acc EXCEPT !.is_nullable = TRUE]
    [] kw = "increment" -> [acc EXCEPT !.is_incremental = TRUE]
    [] kw = "not null" -> acc

Texts(kids) == {kids[i].str : i \in {j \in 1..Len(kids) : IsKeyword(kids[j])}}

\* C5 as amended: `primary key` and `pk` set is_pk, `unique` sets is_unique,
\* `null` sets is_nullable, `increment` sets is_incremental, and `not null`
\* leaves the accumulator as it is (is_nullable stays false only when no
\* earlier `null` set it); a keyword changes no field but its own boolean
C5_KeywordFrame ==
  Done("parse_col_settings") /\ result.tag = "Ok" =>
    /\ \A k \in 1..Len(pair.kids) :
         IsKeyword(pair.kids[k]) =>
           AccAfter(pair, k) = KeywordEffect(AccAfter(pair, k - 1), pair.kids[k].str)
    /\ result.val.is_pk = (Texts(pair.kids) \cap {"primary key", "pk"} # {})
    /\ result.val.is_unique = ("unique" \in Texts(pair.kids))
    /\ result.val.is_nullable = ("null" \in Texts(pair.kids))
    /\ result.val.is_incremental = ("increment" \in Texts(pair.kids))

\* C5 as stated: as above, but `not null` leaves is_nullable = false after any
\* sequence of attributes
C5_NotNullLeavesFalse ==
  Done("parse_col_settings") /\ result.tag = "Ok" =>
    \A k \in 1..Len(pair.kids) :
      IsKeyword(pair.kids[k]) =>
        IF pair.kids[k].str = "not null"
        THEN AccAfter(pair, k) = [AccAfter(pair, k - 1) EXCEPT !.is_nullable = FALSE]
        ELSE AccAfter(pair, k) = KeywordEffect(AccAfter(pair, k - 1), pair.kids[k].str)

\* a note, `null`, then `not null`: the note is kept and is_nullable stays true
C5_Witness ==
  /\ Done("parse_col_settings")
  /\ pair.kids = <<NoteAttr, KeywordAttr("null"), KeywordAttr("not null")>>
  /\ result.tag = "Ok"
  /\ result.val.note = Some("n")
  /\ result.val.is_nullable = TRUE
  /\ result.val.is_pk = FALSE

\* a col_attribute that is no keyword and holds none of the three sub-forms
UnknownAttr(a) ==
  /\ a.rule = "col_attribute"
  /\ a.str \notin ColumnKeywords
  /\ Rules(a.kids) \cap {"col_default", "note_inline", "ref_inline"} = {}

\* C6: a col_settings whose first attribute that is not a keyword or one of
\* the sub-forms is an unknown one fails with InvalidAttribute, also when
\* that attribute has no children
C6_UnknownAttributeRejected ==
  Done("parse_col_settings") =>
    \A i \in 1..Len(pair.kids) :
      (/\ UnknownAttr(pair.kids[i])
       /\ \A j \in 1..(i - 1) :
            /\ pair.kids[j].rule = "col_attribute"
            /\ WellShaped(pair.kids[j])
            /\ ~UnknownAttr(pair.kids[j]))
      => result.tag = "Err" /\ result.err.kind = "InvalidAttribute"

\* a value node whose first child is a number_value holding an integer or a
\* decimal literal
NumericLiteral(p) ==
  /\ p.kids # <<>>
  /\ p.kids[1].rule = "number_value"
  /\ p.kids[1].kids # <<>>
  /\ p.kids[1].kids[1].rule \in {"integer", "decimal"}

\* C7: parse_value returns Ok or Err for every numeric literal
C7_NumericNeverPanics ==
  Done("parse_value") /\ NumericLiteral(pair) => result.tag \in {"Ok", "Err"}

\* C8: two identifier tokens [s, n] give schema = Some(s) and name or table = n,
\* one token [n] gives schema = None and name or table = n
C8_QualifiedNames ==
  /\ Done("parse_decl_ident") /\ Range(pair.kids) \subseteq IdentNodes =>
       /\ Len(pair.kids) = 2 =>
            result = Ok(<<Some(NameOf(pair.kids[1])), NameOf(pair.kids[2])>>)
       /\ Len(pair.kids) = 1 => result = Ok(<<None, NameOf(pair.kids[1])>>)
  /\ Done("parse_ref_ident") /\ WellShaped(pair) =>
       /\ Len(Select(pair.kids, "ident")) = 2 =>
            /\ result.tag = "Ok"
            /\ result.val.schema = Some(NameOf(Select(pair.kids, "ident")[1]))
            /\ result.val.table = NameOf(Select(pair.kids, "ident")[2])
       /\ Len(Select(pair.kids, "ident")) = 1 =>
            /\ result.tag = "Ok"
            /\ result.val.schema = None
            /\ result.val.table = NameOf(Select(pair.kids, "ident")[1])

\* the decl_ident a.b gives (Some(a), b)
C8_Witness ==
  /\ Done("parse_decl_ident")
  /\ pair.kids = <<IdentVar("a"), IdentVar("b")>>
  /\ result = Ok(<<Some("a"), "b">>)

\* one token before a composition gives schema = None
C8_RefIdentWitness ==
  /\ Done("parse_ref_ident")
  /\ Len(Select(pair.kids, "ident")) = 1
  /\ result.tag = "Ok"
  /\ result.val.schema = None
  /\ result.val.table = "b"
  /\ result.val.compositions = <<"c">>

\* the statements of the project_block of a project_decl with one block
BlockKids(p) == Select(p.kids, "project_block")[1].kids

\* the key of a project_stmt: the text of its last project_key child
KeyOf(stmt) ==
  IF Select(stmt.kids, "project_key") = <<>> THEN ""
  ELSE Select(stmt.kids, "project_key")[Len(Select(stmt.kids, "project_key"))].str

BadKey(k) == k.rule = "project_stmt" /\ KeyOf(k) # "database_type"

RuleKinds ==
  {"schema", "project_decl", "project_block", "project_stmt", "project_key",
   "table_decl", "table_alias", "table_block", "table_col", "col_type",
   "col_type_single", "col_type_array", "col_type_arg", "col_settings",
   "col_attribute", "col_default", "enum_decl", "enum_block", "enum_value",
   "enum_settings", "enum_attribute", "ref_decl", "ref_block", "ref_short",
   "ref_stmt", "ref_inline", "ref_ident", "ref_composition", "relation",
   "rel_settings", "rel_attribute", "rel_update", "rel_delete",
   "table_group_decl", "table_group_block", "indexes_decl", "indexes_block",
   "indexes_single", "indexes_multi", "indexes_ident", "indexes_settings",
   "indexes_attribute", "indexes_type", "indexes_name", "note_decl",
   "note_short", "note_block", "note_inline", "string_value", "number_value",
   "boolean_value", "value", "decimal", "integer", "ident", "decl_ident",
   "var", "double_quoted_string", "single_quoted_string", "single_quoted_value",
   "triple_quoted_string", "triple_quoted_value", "backquoted_quoted_string",
   "backquoted_quoted_value", "EOI", "COMMENT"}

\* the node whose children the called function folds
Folded ==
  IF called = "parse" THEN SchemaOf(pair) ELSE pair

\* the error was raised for a child of node n itself: its first child of a
\* kind n does not handle, after children that are well shaped
RaisedAt(n) ==
  \E i \in 1..Len(n.kids) :
    /\ ~Handles(n, n.kids[i].rule)
    /\ result.err.found = n.kids[i].rule
    /\ \A j \in 1..(i - 1) : Handles(n, n.kids[j].rule) /\ WellShaped(n.kids[j])

\* C10: the expected set of an UnexpectedRule error raised by parse_col_type,
\* parse_project_decl or parse_schema holds exactly the child kinds the
\* function's match handles
C10_ExpectedSetExact ==
  (/\ Done("parse") \/ Done("parse_col_type") \/ Done("parse_project_decl")
   /\ called = "parse" => pair.tag = "Ok" /\ pair.val # <<>> /\ pair.val[1].rule = "schema"
   /\ result.tag = "Err"
   /\ result.err.kind = "UnexpectedRule"
   /\ RaisedAt(Folded))
  => Range(result.err.expected) = {k \in RuleKinds : Handles(Folded, k)}

-----------------------------------------------------------------------------
(* Reference sides *)

\* the RefIdents of a RefBlock: its rhs, and its lhs when it has one
SidesOf(b) == {b.rhs} \cup (IF b.lhs.some THEN {b.lhs.val} ELSE {})

\* the RefBlocks of a SchemaBlock: the top-level ones and those of the columns
RefBlocksOf(s) ==
  Range(s.refs)
  \cup UNION {UNION {Range(s.tables[i].fields[j].col_settings.refs) :
                       j \in 1..Len(s.tables[i].fields)} :
               i \in 1..Len(s.tables)}

\* C11: every RefIdent of a returned SchemaBlock (lhs and rhs of each
\* RefBlock, top-level or inline) has at least one composition;
\* parse_ref_ident never returns Ok with no compositions; a returned RefBlock
\* never has the default rhs
C11_CompositionsNonEmpty ==
  /\ Done("parse_ref_ident") /\ result.tag = "Ok" =>
       Len(result.val.compositions) >= 1
  /\ Done("parse_ref_stmt_inline") /\ result.tag = "Ok" =>
       result.val.rhs # RefIdentDefault
  /\ Done("parse") /\ result.tag = "Ok" =>
       \A b \in RefBlocksOf(result.val) :
         /\ b.rhs # RefIdentDefault
         /\ \A side \in SidesOf(b) : Len(side.compositions) >= 1

\* the three parts of C11, each on its own function
C11_RefIdentPart ==
  Done("parse_ref_ident") /\ result.tag = "Ok" => Len(result.val.compositions) >= 1
C11_RefBlockPart ==
  Done("parse_ref_stmt_inline") /\ result.tag = "Ok" => result.val.rhs # RefIdentDefault
C11_SchemaPart ==
  Done("parse") /\ result.tag = "Ok" =>
    \A b \in RefBlocksOf(result.val) :
      /\ b.rhs # RefIdentDefault
      /\ \A side \in SidesOf(b) : Len(side.compositions) >= 1

-----------------------------------------------------------------------------
(* The output path of transpile *)

\* the step of the call of transpile
TranspileStep == called = "transpile" /\ result = Pending /\ result' # Pending

\* the paths whose entry the step changes
Written == {q \in Paths : files'[q] # files[q]}

\* C12: in Config::transpile an output path set with set_out_path is the path
\* written to, whatever OUT_DIR holds; with no output path set the path is the
\* one of OUT_DIR; with no output path set and OUT_DIR absent, transpile
\* returns an Err with a message and creates or writes no file
C12_OutputPath ==
  [][TranspileStep =>
       /\ config.out_path.some =>
            /\ Written \subseteq {config.out_path.val}
            /\ result'.tag = "Ok" => files'[config.out_path.val].kind = "file"
       /\ ~config.out_path.some /\ env.OUT_DIR.some =>
            /\ Written \subseteq {env.OUT_DIR.val}
            /\ result'.tag = "Ok" => files'[env.OUT_DIR.val].kind = "file"
       /\ ~config.out_path.some /\ ~env.OUT_DIR.some =>
            /\ result'.tag = "Err"
            /\ result'.err.message # ""
            /\ Written = {}]_vars

\* the part of C12 that holds of every call: the only path written is the one
\* set, else the one of OUT_DIR, and without either nothing is written and
\* the call does not return Ok
C12_OnlyResolvedPathWritten ==
  [][TranspileStep =>
       /\ config.out_path.some => Written \subseteq {config.out_path.val}
       /\ ~config.out_path.some /\ env.OUT_DIR.some => Written \subseteq {env.OUT_DIR.val}
       /\ ~config.out_path.some /\ ~env.OUT_DIR.some =>
            Written = {} /\ result'.tag # "Ok"]_vars

\* when the input file is read and reduced, a call without output path and
\* without OUT_DIR returns the error about OUT_DIR
C12_MissingOutDirAfterParse ==
  [][(/\ TranspileStep
      /\ files[config.in_path].kind = "file"
      /\ parse(pair).tag = "Ok"
      /\ ~config.out_path.some /\ ~env.OUT_DIR.some)
     => result' = Err(Error_new("Other", "OUT_DIR environment variable is not set"))]_vars

\* the call panics although neither an output path nor OUT_DIR is there
C12_PanicBeforeOutDir ==
  /\ Done("transpile")
  /\ ~config.out_path.some /\ ~env.OUT_DIR.some
  /\ result.tag = "Panic"

\* out.rs was set, OUT_DIR names target/out: out.rs is written
C12_SetPathWins ==
  /\ Done("transpile")
  /\ config.out_path = Some("out.rs") /\ env.OUT_DIR = Some("target/out")
  /\ result.tag = "Ok"
  /\ files["out.rs"].kind = "file" /\ files["out.rs"].content # <<>>
  /\ files["target/out"] = Absent

-----------------------------------------------------------------------------
(* Statements with more than two identifier groups *)

\* the identifier groups of a statement, in order
Groups(p) == Select(p.kids, "ref_ident")

\* how many of them stand before the first relation child
GroupsBefore(p) == Len(Select(SubSeq(p.kids, 1, Pivot(p.kids) - 1), "ref_ident"))

\* a well-shaped statement with more than two identifier groups
ManyGroups(p) == WellShaped(p) /\ Len(Groups(p)) > 2

\* C13 as stated: with more than two identifier groups, wherever the relation
\* child stands among them, lhs is the first group and rhs the last one
C13_FirstGroupIsLhs ==
  (/\ Done("parse_ref_stmt_inline")
   /\ ManyGroups(pair)
   /\ "relation" \in Rules(pair.kids))
  => /\ result.tag = "Ok"
     /\ result.val.lhs = Some(SideOf(Groups(pair)[1]))
     /\ result.val.rhs = SideOf(Groups(pair)[Len(Groups(pair))])

\* C13 amended: with more than two identifier groups, lhs is the last group
\* before the first relation child (None when no group stands before it) and
\* rhs is the last group of those after it (the default RefIdent when none
\* stands after it); so lhs is the first group exactly when one group stands
\* before the relation child
C13_LastGroupEachSide ==
  Done("parse_ref_stmt_inline") /\ ManyGroups(pair) =>
    /\ result.tag = "Ok"
    /\ result.val.lhs =
         IF GroupsBefore(pair) = 0 THEN None
         ELSE Some(SideOf(Groups(pair)[GroupsBefore(pair)]))
    /\ result.val.rhs =
         IF GroupsBefore(pair) = Len(Groups(pair)) THEN RefIdentDefault
         ELSE SideOf(Groups(pair)[Len(Groups(pair))])
    /\ GroupsBefore(pair) = 1 => result.val.lhs = Some(SideOf(Groups(pair)[1]))

\* A.x B.y > C.z gives lhs = Some(B.y) and rhs = C.z
C13_Witness ==
  /\ Done("parse_ref_stmt_inline")
  /\ pair.kids = <<RefSide("A", "x"), RefSide("B", "y"), Leaf("relation", ">"), RefSide("C", "z")>>
  /\ result.tag = "Ok"
  /\ result.val.lhs = Some([schema |-> None, table |-> "B", compositions |-> <<"y">>])
  /\ result.val.rhs = [schema |-> None, table |-> "C", compositions |-> <<"z">>]

\* A.x > B.y C.z gives lhs = Some(A.x) and rhs = C.z: B.y was overwritten
C13_OverwriteWitness ==
  /\ Done("parse_ref_stmt_inline")
  /\ pair.kids = <<RefSide("A", "x"), Leaf("relation", ">"), RefSide("B", "y"), RefSide("C", "z")>>
  /\ result.tag = "Ok"
  /\ result.val.lhs = Some([schema |-> None, table |-> "A", compositions |-> <<"x">>])
  /\ result.val.rhs = [schema |-> None, table |-> "C", compositions |-> <<"z">>]

=============================================================================
